---- MODULE Spec2Model ----
(***************************************************************************)
(* Streaming Galois/Counter Mode (package sgcm, sgcm.go).                  *)
(*                                                                         *)
(* The encryptor and the decryptor are two gcmStreamer structs.  Bytes are *)
(* integers 0..255 and the block cipher is a small concrete permutation of *)
(* 16-byte blocks (the cipher is a parameter of the constructor).  The     *)
(* GF(2^128) accumulator is symbolic: a field element is the sequence of   *)
(* 16-byte blocks that were folded into it, so that two accumulators are   *)
(* equal exactly when the same blocks were folded in the same order        *)
(* (GHASH without collisions).  A tag is 16 symbolic bytes.                *)
(***************************************************************************)
EXTENDS Integers, Sequences, FiniteSets, TLC

VARIABLES enc, dec, encMsg, decMsg, decCall

vars == <<enc, dec, encMsg, decMsg, decCall>>

(***************************************************************************)
(* Program constants (gcm.go).                                             *)
(***************************************************************************)
gcmBlockSize == 16
gcmTagSize == 16
gcmStandardNonceSize == 12

(***************************************************************************)
(* Bounds of the model.                                                    *)
(***************************************************************************)
\* longest plaintext fed to the encryptor in one message
MaxPlain == 33
\* longest associated data
MaxAD == 17
\* in the length-limit specification: how far below the limit a stream starts
LimitSlack == 17

(***************************************************************************)
(* Bytes, blocks, xor.                                                     *)
(***************************************************************************)
RECURSIVE XorBits(_, _, _)
XorBits(a, b, n) ==
    IF n = 0 THEN 0
    ELSE ((a + b) % 2) + 2 * XorBits(a \div 2, b \div 2, n - 1)

\* a ^ b on two bytes
XorByte(a, b) == XorBits(a, b, 8)

Min(a, b) == IF a < b THEN a ELSE b

\* xorBytes(dst, a, b): dst[i] = a[i] ^ b[i] for i < min(len(a), len(b))
xorBytes(a, b) == [i \in 1..Min(Len(a), Len(b)) |-> XorByte(a[i], b[i])]

Repeat(b, n) == [i \in 1..n |-> b]

ZeroBlock == Repeat(0, gcmBlockSize)

Drop(s, n) == SubSeq(s, n + 1, Len(s))

Take(s, n) == SubSeq(s, 1, n)

(***************************************************************************)
(* uint64 values, which exceed the integers of TLC: <<hi, lo>> stands for *)
(* hi * 2^16 + lo with 0 <= lo < 2^16.                                     *)
(***************************************************************************)
Limb == 2 ^ 16

U64(n) == <<n \div Limb, n % Limb>>

U64Add(a, n) == <<a[1] + ((a[2] + n) \div Limb), (a[2] + n) % Limb>>

U64Mul(a, k) == <<a[1] * k + ((a[2] * k) \div Limb), (a[2] * k) % Limb>>

U64Gt(a, b) == a[1] > b[1] \/ (a[1] = b[1] /\ a[2] > b[2])

\* ((1<<32)-2) * blockSize, the largest message of GCM (sgcm.go, Next)
MaxMessageBytes == U64Mul(<<Limb - 1, Limb - 2>>, gcmBlockSize)

\* the 8 big-endian bytes of a uint64 (putUint64)
putUint64(a) ==
    <<0, 0, a[1] \div (256 * 256 * 256), (a[1] \div (256 * 256)) % 256,
      (a[1] \div 256) % 256, a[1] % 256, a[2] \div 256, a[2] % 256>>

(***************************************************************************)
(* The base engine (gcm.go): block cipher, counter, counter mode, GHASH.   *)
(***************************************************************************)
RECURSIVE SumBytes(_, _)
SumBytes(b, n) == IF n = 0 THEN 0 ELSE b[n] + SumBytes(b, n - 1)

\* cipher.Encrypt(dst, src): the block cipher under the fixed key, a
\* permutation of the 16-byte blocks in which every byte of the result
\* depends on every byte of the block (the sum of the result is 49 times
\* the sum of the block plus a constant, and 49 is invertible mod 256)
Encrypt(b) ==
    LET s == SumBytes(b, Len(b))
    IN  [i \in 1..Len(b) |-> (b[i] + 3 * s + 17 * i + 91) % 256]

\* gcmInc32: the last four bytes, a big-endian counter, plus one mod 2^32
RECURSIVE Inc32From(_, _)
Inc32From(c, i) ==
    IF i <= gcmBlockSize - 4 THEN c
    ELSE IF c[i] = 255 THEN Inc32From([c EXCEPT ![i] = 0], i - 1)
    ELSE [c EXCEPT ![i] = c[i] + 1]

gcmInc32(c) == Inc32From(c, gcmBlockSize)

\* deriveCounter(counter, nonce, 1) for a nonce of the standard size, on a
\* zeroed counter block: nonce || 0x00000001
deriveCounter(nonce) == nonce \o <<0, 0, 0, 1>>

\* counterCrypt(out, in, counter): xor with the key stream, one counter
\* value per block begun; the result and the counter it leaves
RECURSIVE counterCrypt(_, _)
counterCrypt(in, counter) ==
    IF Len(in) = 0 THEN [out |-> <<>>, counter |-> counter]
    ELSE LET n    == Min(Len(in), gcmBlockSize)
             rest == counterCrypt(Drop(in, n), gcmInc32(counter))
         IN  [out     |-> xorBytes(Take(in, n), Encrypt(counter)) \o rest.out,
              counter |-> rest.counter]

\* update(y, data): fold data into the accumulator, block by block, the
\* last partial block padded with zeros
RECURSIVE update(_, _)
update(y, data) ==
    IF Len(data) = 0 THEN y
    ELSE IF Len(data) >= gcmBlockSize
         THEN update(Append(y, Take(data, gcmBlockSize)), Drop(data, gcmBlockSize))
         ELSE Append(y, data \o Repeat(0, gcmBlockSize - Len(data)))

\* y ^= z; mul(y): the lengths fold in as one more block
mulLengths(y, z) == Append(y, putUint64(U64(z.low)) \o putUint64(z.high))

\* byte i of the serialized accumulator y xored with mask byte m.  The 16
\* bytes together determine y: the first carries it, the others only their
\* place and mask
TagByte(y, m, i) == IF i = 1 THEN <<i, m, y>> ELSE <<i, m, <<>>>>

(***************************************************************************)
(* gcmStreamer: the streaming state of one encryptor or decryptor.         *)
(*   y           the field accumulator (the blocks folded so far)          *)
(*   z           low: len(ad) * 8; high: the ciphertext length in bytes    *)
(*   counter     the counter block       tagMask   the mask of the tag     *)
(*   buf         the pending buffer      verifyOnly   the mode flag        *)
(***************************************************************************)
\* the struct NewStreamingGCMWithNonceSize builds: every field zero
NewStreamer ==
    [y          |-> <<>>,
     z          |-> [low |-> 0, high |-> U64(0)],
     counter    |-> ZeroBlock,
     tagMask    |-> ZeroBlock,
     buf        |-> <<>>,
     verifyOnly |-> FALSE]

\* the nonce size the constructor configured (NewStreamingGCM)
nonceSize == gcmStandardNonceSize

\* Initialize with the bug of testing the nonce after the counter and the
\* pending buffer were reset
InitializeResetsFirst(sg, nonce, ad) ==
    IF Len(nonce) # nonceSize
    THEN [sg |-> [sg EXCEPT !.counter = ZeroBlock, !.buf = <<>>], panic |-> TRUE]
    ELSE LET c0 == deriveCounter(nonce)
         IN  [sg    |-> [sg EXCEPT !.counter = gcmInc32(c0),
                                   !.tagMask = Encrypt(c0),
                                   !.y       = update(<<>>, ad),
                                   !.z       = [low |-> Len(ad) * 8, high |-> U64(0)],
                                   !.buf     = <<>>],
              panic |-> FALSE]

\* Initialize with the bug of keeping the pending buffer
InitializeKeepsBuffer(sg, nonce, ad) ==
    IF Len(nonce) # nonceSize
    THEN [sg |-> sg, panic |-> TRUE]
    ELSE LET c0 == deriveCounter(nonce)
         IN  [sg    |-> [sg EXCEPT !.counter = gcmInc32(c0),
                                   !.tagMask = Encrypt(c0),
                                   !.y       = update(<<>>, ad),
                                   !.z       = [low |-> Len(ad) * 8, high |-> U64(0)]],
              panic |-> FALSE]

\* gcmStreamer.Initialize: the streamer it leaves, or a panic that leaves
\* the streamer as it was
Initialize(sg, nonce, ad) ==
    IF Len(nonce) # nonceSize
    THEN [sg |-> sg, panic |-> TRUE]
    ELSE LET c0 == deriveCounter(nonce)
         IN  [sg    |-> [sg EXCEPT !.counter = gcmInc32(c0),
                                   !.tagMask = Encrypt(c0),
                                   !.y       = update(<<>>, ad),
                                   !.z       = [low |-> Len(ad) * 8, high |-> U64(0)],
                                   !.buf     = <<>>],
              panic |-> FALSE]

\* gcmStreamer.finalizeAuth: the streamer it leaves and the tag t
finalizeAuth(sg) ==
    LET zh == U64Mul(sg.z.high, 8)
        y  == mulLengths(sg.y, [low |-> sg.z.low, high |-> zh])
    IN  [sg |-> [sg EXCEPT !.z.high = zh, !.y = y],
         t  |-> [i \in 1..gcmTagSize |-> TagByte(y, sg.tagMask[i], i)]]

\* encNext with the bug of encrypting the whole pending buffer, its partial
\* last block included, once a block is complete
encNextWholeBuffer(sg, dst, src) ==
    LET buf == sg.buf \o src
        zh  == U64Add(sg.z.high, Len(src))
        s1  == [sg EXCEPT !.buf = buf, !.z.high = zh]
        cc  == counterCrypt(buf, sg.counter)
    IN  IF U64Gt(zh, MaxMessageBytes)
        THEN [sg |-> s1, dst |-> dst, panic |-> TRUE]
        ELSE IF Len(buf) >= gcmBlockSize
        THEN [sg    |-> [s1 EXCEPT !.counter = cc.counter,
                                   !.buf     = <<>>,
                                   !.y       = update(sg.y, cc.out)],
              dst   |-> dst \o cc.out,
              panic |-> FALSE]
        ELSE [sg |-> s1, dst |-> dst, panic |-> FALSE]

\* encNext with the bug of refusing a message of exactly MaxMessageBytes
encNextOffByOne(sg, dst, src) ==
    LET buf   == sg.buf \o src
        zh    == U64Add(sg.z.high, Len(src))
        s1    == [sg EXCEPT !.buf = buf, !.z.high = zh]
        bytes == (Len(buf) \div 16) * 16
        cc    == counterCrypt(Take(buf, bytes), sg.counter)
    IN  IF ~U64Gt(MaxMessageBytes, zh)
        THEN [sg |-> s1, dst |-> dst, panic |-> TRUE]
        ELSE IF bytes > 0
        THEN [sg    |-> [s1 EXCEPT !.counter = cc.counter,
                                   !.buf     = Drop(buf, bytes),
                                   !.y       = update(sg.y, cc.out)],
              dst   |-> dst \o cc.out,
              panic |-> FALSE]
        ELSE [sg |-> s1, dst |-> dst, panic |-> FALSE]

\* gcmEncryptor.Next(dst, src)
encNext(sg, dst, src) ==
    LET buf   == sg.buf \o src
        zh    == U64Add(sg.z.high, Len(src))
        s1    == [sg EXCEPT !.buf = buf, !.z.high = zh]
        bytes == (Len(buf) \div 16) * 16
        cc    == counterCrypt(Take(buf, bytes), sg.counter)
    IN  IF U64Gt(zh, MaxMessageBytes)
        THEN [sg |-> s1, dst |-> dst, panic |-> TRUE]
        ELSE IF bytes > 0
        THEN [sg    |-> [s1 EXCEPT !.counter = cc.counter,
                                   !.buf     = Drop(buf, bytes),
                                   !.y       = update(sg.y, cc.out)],
              dst   |-> dst \o cc.out,
              panic |-> FALSE]
        ELSE [sg |-> s1, dst |-> dst, panic |-> FALSE]

\* encFinalize with the bug of encrypting the buffer padded to a whole block
encFinalizeWholeBlock(sg, dst) ==
    LET ks == Encrypt(sg.counter)
        c  == xorBytes(sg.buf \o Repeat(0, gcmBlockSize - Len(sg.buf)), ks)
        s1 == [sg EXCEPT !.counter = ks, !.y = update(sg.y, c)]
        fa == finalizeAuth(s1)
    IN  [sg |-> fa.sg, dst |-> (dst \o c) \o fa.t]

\* gcmEncryptor.Finalize(dst)
encFinalize(sg, dst) ==
    LET ks == Encrypt(sg.counter)
        c  == xorBytes(sg.buf, ks)
        s1 == [sg EXCEPT !.counter = ks, !.y = update(sg.y, c)]
        fa == finalizeAuth(s1)
    IN  [sg |-> fa.sg, dst |-> (dst \o c) \o fa.t]

\* InitializeVerifyOnly with the bug of not setting the mode flag
InitializeVerifyOnlyNoFlag(sg, nonce, ad) == Initialize(sg, nonce, ad)

\* gcmDecryptor.InitializeVerifyOnly
InitializeVerifyOnly(sg, nonce, ad) ==
    LET r == Initialize(sg, nonce, ad)
    IN  IF r.panic THEN r
        ELSE [sg |-> [r.sg EXCEPT !.verifyOnly = TRUE], panic |-> FALSE]

\* decNext with the bug of folding the ciphertext into the accumulator only
\* where it is decrypted
decNextAuthWhenDecrypting(sg, dst, src) ==
    LET buf   == sg.buf \o src
        zh    == U64Add(sg.z.high, Len(src))
        s1    == [sg EXCEPT !.buf = buf, !.z.high = zh]
        bytes == (Len(buf) \div 16) * 16
        cc    == counterCrypt(Take(buf, bytes), sg.counter)
    IN  IF bytes > 0
        THEN IF ~sg.verifyOnly
             THEN [sg    |-> [s1 EXCEPT !.y       = update(sg.y, Take(buf, bytes)),
                                        !.counter = cc.counter,
                                        !.buf     = Drop(buf, bytes)],
                   dst   |-> dst \o cc.out,
                   panic |-> FALSE]
             ELSE [sg    |-> [s1 EXCEPT !.buf = Drop(buf, bytes)],
                   dst   |-> dst,
                   panic |-> FALSE]
        ELSE [sg |-> s1, dst |-> dst, panic |-> FALSE]

\* decNext with the bug of running the counter in verify-only mode too
decNextCountsWhenVerifying(sg, dst, src) ==
    LET buf   == sg.buf \o src
        zh    == U64Add(sg.z.high, Len(src))
        s1    == [sg EXCEPT !.buf = buf, !.z.high = zh]
        bytes == (Len(buf) \div 16) * 16
        s2    == [s1 EXCEPT !.y = update(sg.y, Take(buf, bytes))]
        cc    == counterCrypt(Take(buf, bytes), sg.counter)
    IN  IF bytes > 0
        THEN [sg    |-> [s2 EXCEPT !.counter = cc.counter,
                                   !.buf     = Drop(buf, bytes)],
              dst   |-> IF ~sg.verifyOnly THEN dst \o cc.out ELSE dst,
              panic |-> FALSE]
        ELSE [sg |-> s1, dst |-> dst, panic |-> FALSE]

\* decNext with the bug of consuming one block in a call
decNextOneBlock(sg, dst, src) ==
    LET buf   == sg.buf \o src
        zh    == U64Add(sg.z.high, Len(src))
        s1    == [sg EXCEPT !.buf = buf, !.z.high = zh]
        bytes == IF Len(buf) >= 16 THEN 16 ELSE 0
        s2    == [s1 EXCEPT !.y = update(sg.y, Take(buf, bytes))]
        cc    == counterCrypt(Take(buf, bytes), sg.counter)
    IN  IF bytes > 0
        THEN IF ~sg.verifyOnly
             THEN [sg    |-> [s2 EXCEPT !.counter = cc.counter,
                                        !.buf     = Drop(buf, bytes)],
                   dst   |-> dst \o cc.out,
                   panic |-> FALSE]
             ELSE [sg    |-> [s2 EXCEPT !.buf = Drop(buf, bytes)],
                   dst   |-> dst,
                   panic |-> FALSE]
        ELSE [sg |-> s1, dst |-> dst, panic |-> FALSE]

\* gcmDecryptor.Next(dst, src)
decNext(sg, dst, src) ==
    LET buf   == sg.buf \o src
        zh    == U64Add(sg.z.high, Len(src))
        s1    == [sg EXCEPT !.buf = buf, !.z.high = zh]
        bytes == (Len(buf) \div 16) * 16
        s2    == [s1 EXCEPT !.y = update(sg.y, Take(buf, bytes))]
        cc    == counterCrypt(Take(buf, bytes), sg.counter)
    IN  IF bytes > 0
        THEN IF ~sg.verifyOnly
             THEN [sg    |-> [s2 EXCEPT !.counter = cc.counter,
                                        !.buf     = Drop(buf, bytes)],
                   dst   |-> dst \o cc.out,
                   panic |-> FALSE]
             ELSE [sg    |-> [s2 EXCEPT !.buf = Drop(buf, bytes)],
                   dst   |-> dst,
                   panic |-> FALSE]
        ELSE [sg |-> s1, dst |-> dst, panic |-> FALSE]

\* subtle.ConstantTimeCompare(x, y) = 1
ConstantTimeEq(x, y) == Len(x) = Len(y) /\ x = y

\* decFinalize with the bug of comparing only as many bytes as the caller's
\* tag has
decFinalizePrefixCompare(sg, dst, tag) ==
    LET s1 == [sg EXCEPT !.y = update(sg.y, sg.buf)]
        ks == Encrypt(sg.counter)
        s2 == IF ~sg.verifyOnly THEN [s1 EXCEPT !.counter = ks] ELSE s1
        d1 == IF ~sg.verifyOnly THEN dst \o xorBytes(sg.buf, ks) ELSE dst
        fa == finalizeAuth(s2)
    IN  IF ~(Len(tag) <= gcmTagSize /\ tag = Take(fa.t, Len(tag)))
        THEN [sg |-> fa.sg, dst |-> <<>>, isNil |-> TRUE, err |-> "errOpen",
              panic |-> FALSE]
        ELSE [sg |-> fa.sg, dst |-> d1, isNil |-> FALSE, err |-> "nil",
              panic |-> FALSE]

\* decFinalize with the bug of comparing the first gcmTagSize bytes of a
\* longer tag
decFinalizeIgnoresExtraBytes(sg, dst, tag) ==
    LET s1 == [sg EXCEPT !.y = update(sg.y, sg.buf)]
        ks == Encrypt(sg.counter)
        s2 == IF ~sg.verifyOnly THEN [s1 EXCEPT !.counter = ks] ELSE s1
        d1 == IF ~sg.verifyOnly THEN dst \o xorBytes(sg.buf, ks) ELSE dst
        fa == finalizeAuth(s2)
    IN  IF ~(Len(tag) >= gcmTagSize /\ Take(tag, gcmTagSize) = fa.t)
        THEN [sg |-> fa.sg, dst |-> <<>>, isNil |-> TRUE, err |-> "errOpen",
              panic |-> FALSE]
        ELSE [sg |-> fa.sg, dst |-> d1, isNil |-> FALSE, err |-> "nil",
              panic |-> FALSE]

\* decFinalize with the bug of returning dst, the final plaintext appended,
\* beside the error
decFinalizeKeepsOutput(sg, dst, tag) ==
    LET s1 == [sg EXCEPT !.y = update(sg.y, sg.buf)]
        ks == Encrypt(sg.counter)
        s2 == IF ~sg.verifyOnly THEN [s1 EXCEPT !.counter = ks] ELSE s1
        d1 == IF ~sg.verifyOnly THEN dst \o xorBytes(sg.buf, ks) ELSE dst
        fa == finalizeAuth(s2)
    IN  IF ~ConstantTimeEq(tag, fa.t)
        THEN [sg |-> fa.sg, dst |-> d1, isNil |-> FALSE, err |-> "errOpen",
              panic |-> FALSE]
        ELSE [sg |-> fa.sg, dst |-> d1, isNil |-> FALSE, err |-> "nil",
              panic |-> FALSE]

\* gcmDecryptor.Finalize(dst, tag): the slice returned (isNil for nil) and
\* the error
decFinalize(sg, dst, tag) ==
    LET s1 == [sg EXCEPT !.y = update(sg.y, sg.buf)]
        ks == Encrypt(sg.counter)
        s2 == IF ~sg.verifyOnly THEN [s1 EXCEPT !.counter = ks] ELSE s1
        d1 == IF ~sg.verifyOnly THEN dst \o xorBytes(sg.buf, ks) ELSE dst
        fa == finalizeAuth(s2)
    IN  IF ~ConstantTimeEq(tag, fa.t)
        THEN [sg |-> fa.sg, dst |-> <<>>, isNil |-> TRUE, err |-> "errOpen",
              panic |-> FALSE]
        ELSE [sg |-> fa.sg, dst |-> d1, isNil |-> FALSE, err |-> "nil",
              panic |-> FALSE]

(***************************************************************************)
(* The decryptor's Next and Finalize, statement by statement.  A call in   *)
(* progress is a record c: pc is the statement to run next, dst, src and   *)
(* tag are the parameters (dst grows as the call appends to it), bytes and *)
(* t are the locals.  A step returns the streamer and the call as the      *)
(* statement leaves them; pc = "done" when the call has returned (isNil    *)
(* and err are then what Finalize returned).                               *)
(***************************************************************************)
\* decNextStep with the bug of decrypting and appending the blocks before
\* they are folded into the accumulator
decNextStepReleasesFirst(sg, c) ==
    CASE c.pc = "N1" ->
           [sg |-> [sg EXCEPT !.buf = sg.buf \o c.src,
                              !.z.high = U64Add(sg.z.high, Len(c.src))],
            c  |-> [c EXCEPT !.pc = "N2"]]
      [] c.pc = "N2" ->
           LET bytes == (Len(sg.buf) \div 16) * 16
           IN  [sg |-> sg,
                c  |-> [c EXCEPT !.bytes = bytes,
                                 !.pc = IF bytes > 0 THEN "N3" ELSE "done"]]
      [] c.pc = "N3" ->
           IF ~sg.verifyOnly
           THEN LET cc == counterCrypt(Take(sg.buf, c.bytes), sg.counter)
                IN  [sg |-> [sg EXCEPT !.counter = cc.counter],
                     c  |-> [c EXCEPT !.dst = c.dst \o cc.out, !.pc = "N4"]]
           ELSE [sg |-> sg, c |-> [c EXCEPT !.pc = "N4"]]
      [] c.pc = "N4" ->
           [sg |-> [sg EXCEPT !.y = update(sg.y, Take(sg.buf, c.bytes))],
            c  |-> [c EXCEPT !.pc = "N5"]]
      [] OTHER ->
           [sg |-> [sg EXCEPT !.buf = Drop(sg.buf, c.bytes)],
            c  |-> [c EXCEPT !.pc = "done"]]

\* gcmDecryptor.Next, one statement: N1 buffers src and counts it, N2
\* computes bytes, N3 folds the complete blocks, N4 decrypts and appends
\* them unless verify-only, N5 drops them from the buffer
decNextStep(sg, c) ==
    CASE c.pc = "N1" ->
           [sg |-> [sg EXCEPT !.buf = sg.buf \o c.src,
                              !.z.high = U64Add(sg.z.high, Len(c.src))],
            c  |-> [c EXCEPT !.pc = "N2"]]
      [] c.pc = "N2" ->
           LET bytes == (Len(sg.buf) \div 16) * 16
           IN  [sg |-> sg,
                c  |-> [c EXCEPT !.bytes = bytes,
                                 !.pc = IF bytes > 0 THEN "N3" ELSE "done"]]
      [] c.pc = "N3" ->
           [sg |-> [sg EXCEPT !.y = update(sg.y, Take(sg.buf, c.bytes))],
            c  |-> [c EXCEPT !.pc = "N4"]]
      [] c.pc = "N4" ->
           IF ~sg.verifyOnly
           THEN LET cc == counterCrypt(Take(sg.buf, c.bytes), sg.counter)
                IN  [sg |-> [sg EXCEPT !.counter = cc.counter],
                     c  |-> [c EXCEPT !.dst = c.dst \o cc.out, !.pc = "N5"]]
           ELSE [sg |-> sg, c |-> [c EXCEPT !.pc = "N5"]]
      [] OTHER ->
           [sg |-> [sg EXCEPT !.buf = Drop(sg.buf, c.bytes)],
            c  |-> [c EXCEPT !.pc = "done"]]

\* gcmDecryptor.Finalize, one statement: F1 folds the buffer, F2 decrypts
\* and appends it unless verify-only, F3 computes the tag, F4 compares and
\* returns
decFinalizeStep(sg, c) ==
    CASE c.pc = "F1" ->
           [sg |-> [sg EXCEPT !.y = update(sg.y, sg.buf)],
            c  |-> [c EXCEPT !.pc = "F2"]]
      [] c.pc = "F2" ->
           IF ~sg.verifyOnly
           THEN LET ks == Encrypt(sg.counter)
                IN  [sg |-> [sg EXCEPT !.counter = ks],
                     c  |-> [c EXCEPT !.dst = c.dst \o xorBytes(sg.buf, ks),
                                      !.pc = "F3"]]
           ELSE [sg |-> sg, c |-> [c EXCEPT !.pc = "F3"]]
      [] c.pc = "F3" ->
           LET fa == finalizeAuth(sg)
           IN  [sg |-> fa.sg, c |-> [c EXCEPT !.t = fa.t, !.pc = "F4"]]
      [] OTHER ->
           IF ~ConstantTimeEq(c.tag, c.t)
           THEN [sg |-> sg,
                 c  |-> [c EXCEPT !.t = Repeat(0, gcmTagSize), !.dst = <<>>,
                                  !.isNil = TRUE, !.err = "errOpen", !.pc = "done"]]
           ELSE [sg |-> sg,
                 c  |-> [c EXCEPT !.isNil = FALSE, !.err = "nil", !.pc = "done"]]

(***************************************************************************)
(* The one-shot GCM of the base engine (gcm.go, Seal): the ciphertext      *)
(* followed by the tag.                                                    *)
(***************************************************************************)
Seal(nonce, plaintext, data) ==
    LET c0   == deriveCounter(nonce)
        mask == Encrypt(c0)
        ct   == counterCrypt(plaintext, gcmInc32(c0)).out
        y    == mulLengths(update(update(<<>>, data), ct),
                           [low |-> Len(data) * 8, high |-> U64(Len(ct) * 8)])
    IN  ct \o [i \in 1..gcmTagSize |-> TagByte(y, mask[i], i)]

(***************************************************************************)
(* The callers.  The inputs are drawn from small sets: nonces of the right *)
(* and of a wrong length, associated data of a few lengths, and plaintext  *)
(* cut into fragments of every length in FragLens.                         *)
(***************************************************************************)
Nonces == {Repeat(0, nonceSize), Repeat(1, nonceSize)}

BadNonces == {Repeat(0, nonceSize - 1), Repeat(0, nonceSize + 1)}

ADOf(n) == [i \in 1..n |-> (5 * i + 1) % 256]

ADs == {ADOf(0), ADOf(MaxAD)}

\* byte i (from 1) of the plaintext
PlainByte(i) == (7 * i + 3) % 256

PlainFrom(pos, n) == [i \in 1..n |-> PlainByte(pos + i)]

FragLens == {0, 1, 15, 16, 17, 32, 33}

\* the lengths of the messages that are sent on to the decrypting side
SentLens == {0, 1, 15, 16, 17, 32, MaxPlain}

\* What the caller knows of the encryptor: the progress of the current
\* message (st), the last call and whether it panicked (op, panic), how
\* the current message was begun (reinit), its inputs, the number of
\* plaintext bytes fed (fed) and the bytes the calls returned so far (out).
NoEncMsg ==
    [st |-> "new", op |-> "none", panic |-> FALSE, reinit |-> "no",
     nonce |-> <<>>, ad |-> <<>>, in |-> <<>>, fed |-> U64(0), out |-> <<>>]

\* The same of the decryptor: variant is the Initialize* call that began
\* the message, ct and tag are what the caller received and is feeding,
\* in is the ciphertext fed, out what the Next calls returned, ret and
\* err what Finalize returned.
NoDecMsg ==
    [st |-> "new", op |-> "none", panic |-> FALSE, variant |-> "none",
     nonce |-> <<>>, ad |-> <<>>, ct |-> <<>>, tag |-> <<>>,
     in |-> <<>>, fed |-> U64(0), out |-> <<>>,
     ret |-> <<>>, retNil |-> FALSE, err |-> "none"]

\* no call in progress on the decryptor; sg0 is the streamer as the call
\* in progress found it
NoCall ==
    [pc |-> "idle", dst |-> <<>>, src |-> <<>>, tag |-> <<>>, bytes |-> 0,
     t |-> <<>>, isNil |-> FALSE, err |-> "none", sg0 |-> NewStreamer]

Init ==
    /\ enc = NewStreamer
    /\ dec = NewStreamer
    /\ encMsg = NoEncMsg
    /\ decMsg = NoDecMsg
    /\ decCall = NoCall

\* enc.Initialize(nonce, ad)
EncInitialize(nonce, ad) ==
    LET r == Initialize(enc, nonce, ad)
    IN  /\ enc' = r.sg
        /\ encMsg' = IF r.panic
                     THEN [encMsg EXCEPT !.op = "Initialize", !.panic = TRUE]
                     ELSE [NoEncMsg EXCEPT
                             !.st     = "init",
                             !.op     = "Initialize",
                             !.reinit = IF encMsg.st = "new" THEN "no"
                                        ELSE IF Len(enc.buf) > 0 THEN "pending"
                                        ELSE "clean",
                             !.nonce  = nonce,
                             !.ad     = ad]
        /\ UNCHANGED <<dec, decMsg, decCall>>

\* EncNext with the bug of an encryptor and a decryptor that are one struct
EncNextOnSharedStreamer(src) ==
    LET r == encNext(enc, encMsg.out, src)
    IN  /\ encMsg.st = "init"
        /\ enc' = r.sg
        /\ dec' = r.sg
        /\ encMsg' = [encMsg EXCEPT !.op     = "Next",
                                    !.panic  = r.panic,
                                    !.reinit = "no",
                                    !.in     = encMsg.in \o src,
                                    !.fed    = U64Add(encMsg.fed, Len(src)),
                                    !.out    = r.dst]
        /\ UNCHANGED <<decMsg, decCall>>

\* out = enc.Next(out, src)
EncNext(src) ==
    LET r == encNext(enc, encMsg.out, src)
    IN  /\ encMsg.st = "init"
        /\ enc' = r.sg
        /\ encMsg' = [encMsg EXCEPT !.op     = "Next",
                                    !.panic  = r.panic,
                                    !.reinit = "no",
                                    !.in     = encMsg.in \o src,
                                    !.fed    = U64Add(encMsg.fed, Len(src)),
                                    !.out    = r.dst]
        /\ UNCHANGED <<dec, decMsg, decCall>>

\* out = enc.Finalize(out)
EncFinalize ==
    LET r == encFinalize(enc, encMsg.out)
    IN  /\ encMsg.st = "init"
        /\ enc' = r.sg
        /\ encMsg' = [encMsg EXCEPT !.st = "final", !.op = "Finalize",
                                    !.panic = FALSE, !.reinit = "no",
                                    !.out = r.dst]
        /\ UNCHANGED <<dec, decMsg, decCall>>

(***************************************************************************)
(* What reaches the decrypting side: the message the encryptor finished    *)
(* (its nonce, associated data, ciphertext and tag), as produced or        *)
(* changed on the way.                                                     *)
(***************************************************************************)
Produced ==
    [nonce |-> encMsg.nonce,
     ad    |-> encMsg.ad,
     ct    |-> Take(encMsg.out, Len(encMsg.out) - gcmTagSize),
     tag   |-> Drop(encMsg.out, Len(encMsg.out) - gcmTagSize)]

FlipLast(s) == [s EXCEPT ![Len(s)] = XorByte(s[Len(s)], 1)]

Tampers == {"none", "ad", "ctFlip", "ctExtend", "ctTruncate", "nonceShort", "nonceLong"}

Tampered(m, kind) ==
    CASE kind = "ad"         -> [m EXCEPT !.ad = IF Len(m.ad) = 0 THEN <<1>> ELSE FlipLast(m.ad)]
      [] kind = "ctFlip"     -> [m EXCEPT !.ct = IF Len(m.ct) = 0 THEN <<1>> ELSE FlipLast(m.ct)]
      [] kind = "ctExtend"   -> [m EXCEPT !.ct = m.ct \o <<0>>]
      [] kind = "ctTruncate" -> [m EXCEPT !.ct = Take(m.ct, Len(m.ct) - 1)]
      [] kind = "nonceShort" -> [m EXCEPT !.nonce = Take(m.nonce, Len(m.nonce) - 1)]
      [] kind = "nonceLong"  -> [m EXCEPT !.nonce = m.nonce \o <<0>>]
      [] OTHER               -> m

\* the tags a caller may hand to Finalize: the one received, the one
\* received with its last byte changed, a short one, a long one, none, and
\* the tag of the all-zero state
TagKinds == {"same", "flip", "short", "long", "empty", "zero"}

ZeroStateTag == finalizeAuth(NewStreamer).t

TagOf(tag, kind) ==
    CASE kind = "flip"  -> IF Len(tag) < gcmTagSize THEN tag
                           ELSE [tag EXCEPT ![gcmTagSize] =
                                   <<gcmTagSize, XorByte(tag[gcmTagSize][2], 1),
                                     tag[gcmTagSize][3]>>]
      [] kind = "short" -> Take(tag, gcmTagSize - 1)
      [] kind = "long"  -> tag \o <<<<Len(tag) + 1, 0, <<>>>>>>
      [] kind = "empty" -> <<>>
      [] kind = "zero"  -> ZeroStateTag
      [] OTHER          -> tag

\* dec.Initialize(nonce, ad) or dec.InitializeVerifyOnly(nonce, ad), by a
\* caller who received m
DecStart(variant, m) ==
    LET r == IF variant = "InitializeVerifyOnly"
             THEN InitializeVerifyOnly(dec, m.nonce, m.ad)
             ELSE Initialize(dec, m.nonce, m.ad)
    IN  /\ dec' = r.sg
        /\ decMsg' = IF r.panic
                     THEN [decMsg EXCEPT !.op = variant, !.panic = TRUE]
                     ELSE [NoDecMsg EXCEPT !.st = "init", !.op = variant,
                                           !.variant = variant,
                                           !.nonce = m.nonce, !.ad = m.ad,
                                           !.ct = m.ct, !.tag = m.tag]
        /\ UNCHANGED <<enc, encMsg, decCall>>

DecInitialize(m) == DecStart("Initialize", m)

DecInitializeVerifyOnly(m) == DecStart("InitializeVerifyOnly", m)

\* out = dec.Next(out, src)
DecNext(src) ==
    LET r == decNext(dec, decMsg.out, src)
    IN  /\ decMsg.st = "init"
        /\ dec' = r.sg
        /\ decMsg' = [decMsg EXCEPT !.op    = "Next",
                                    !.panic = r.panic,
                                    !.in    = decMsg.in \o src,
                                    !.fed   = U64Add(decMsg.fed, Len(src)),
                                    !.out   = r.dst]
        /\ UNCHANGED <<enc, encMsg, decCall>>

\* ret, err = dec.Finalize(out, tag)
DecFinalize(tag) ==
    LET r == decFinalize(dec, decMsg.out, tag)
    IN  /\ decMsg.st \in {"new", "init"}
        /\ dec' = r.sg
        /\ decMsg' = IF r.panic
                     THEN [decMsg EXCEPT !.op = "Finalize", !.panic = TRUE]
                     ELSE [decMsg EXCEPT !.st = "final", !.op = "Finalize",
                                         !.panic = FALSE,
                                         !.tag = tag, !.ret = r.dst,
                                         !.retNil = r.isNil, !.err = r.err]
        /\ UNCHANGED <<enc, encMsg, decCall>>

\* dec.Next(out, src) is called: its first statement is next
DecNextCall(src) ==
    /\ decMsg.st = "init"
    /\ decCall.pc = "idle"
    /\ decCall' = [NoCall EXCEPT !.pc = "N1", !.dst = decMsg.out, !.src = src,
                                 !.sg0 = dec]
    /\ UNCHANGED <<enc, encMsg, dec, decMsg>>

\* one statement of the dec.Next in progress; the last one returns
DecNextStep ==
    LET r == decNextStep(dec, decCall)
    IN  /\ decCall.pc \in {"N1", "N2", "N3", "N4", "N5"}
        /\ dec' = r.sg
        /\ IF r.c.pc = "done"
           THEN /\ decMsg' = [decMsg EXCEPT !.op    = "Next",
                                            !.panic = FALSE,
                                            !.in    = decMsg.in \o decCall.src,
                                            !.fed   = U64Add(decMsg.fed, Len(decCall.src)),
                                            !.out   = r.c.dst]
                /\ decCall' = NoCall
           ELSE /\ decCall' = r.c
                /\ UNCHANGED decMsg
        /\ UNCHANGED <<enc, encMsg>>

\* dec.Finalize(out, tag) is called
DecFinalizeCall(tag) ==
    /\ decMsg.st \in {"new", "init"}
    /\ decCall.pc = "idle"
    /\ decCall' = [NoCall EXCEPT !.pc = "F1", !.dst = decMsg.out, !.tag = tag,
                                 !.sg0 = dec]
    /\ UNCHANGED <<enc, encMsg, dec, decMsg>>

\* one statement of the dec.Finalize in progress; the last one returns
DecFinalizeStep ==
    LET r == decFinalizeStep(dec, decCall)
    IN  /\ decCall.pc \in {"F1", "F2", "F3", "F4"}
        /\ dec' = r.sg
        /\ IF r.c.pc = "done"
           THEN /\ decMsg' = [decMsg EXCEPT !.st = "final", !.op = "Finalize",
                                            !.panic = FALSE,
                                            !.tag = decCall.tag, !.ret = r.c.dst,
                                            !.retNil = r.c.isNil, !.err = r.c.err]
                /\ decCall' = NoCall
           ELSE /\ decCall' = r.c
                /\ UNCHANGED decMsg
        /\ UNCHANGED <<enc, encMsg>>

(***************************************************************************)
(* Spec: a caller encrypts messages on the encryptor, in fragments of any  *)
(* lengths; the last message finished is then read, as produced or         *)
(* tampered with, on the decryptor, which is used for message after        *)
(* message in either mode.                                                 *)
(***************************************************************************)
Encrypting == decMsg.st = "new" /\ decMsg.op = "none"

Received == encMsg.st = "final" /\ Len(encMsg.in) \in SentLens

Idle == decMsg.st \in {"new", "final"}

Next ==
    \/ /\ Encrypting
       /\ \E nonce \in Nonces \cup BadNonces, ad \in ADs : EncInitialize(nonce, ad)
    \/ /\ Encrypting
       /\ \E n \in FragLens :
             /\ Len(encMsg.in) + n <= MaxPlain
             /\ EncNext(PlainFrom(Len(encMsg.in), n))
    \/ /\ Encrypting
       /\ EncFinalize
    \/ /\ Received /\ Idle
       /\ \E k \in Tampers : DecInitialize(Tampered(Produced, k))
    \/ /\ Received /\ Idle
       /\ \E k \in Tampers : DecInitializeVerifyOnly(Tampered(Produced, k))
    \/ /\ Received
       /\ \E n \in FragLens :
             /\ Len(decMsg.in) + n <= Len(decMsg.ct)
             /\ DecNext(SubSeq(decMsg.ct, Len(decMsg.in) + 1, Len(decMsg.in) + n))
    \/ /\ Received
       /\ Len(decMsg.in) = Len(decMsg.ct)
       /\ \E k \in TagKinds :
             DecFinalize(TagOf(IF decMsg.st = "new" THEN Produced.tag ELSE decMsg.tag, k))

Spec == Init /\ [][Next]_vars

(***************************************************************************)
(* SpecLimit: streams at the length limit.  A message of MaxMessageBytes   *)
(* bytes cannot be enumerated, so this specification begins in the middle  *)
(* of one: in the state an encryptor, or a decryptor, is in after          *)
(* Initialize(nonce, <<>>) and Next calls that fed, between them, all but  *)
(* k bytes of a message of MaxMessageBytes zero bytes.                     *)
(***************************************************************************)
\* 2^32 - 1 - (blocks below the limit), as the last four counter bytes
CounterNear(nonce, k) ==
    LET c == nonce \o <<255, 255, 255, 255 - ((k + gcmBlockSize - 1) \div gcmBlockSize)>>
    IN  gcmInc32(c)

\* the accumulator after the blocks fed so far: some field element
BulkY == <<Repeat(255, gcmBlockSize)>>

StreamerNear(nonce, k) ==
    [y          |-> BulkY,
     z          |-> [low |-> 0, high |-> U64Add(MaxMessageBytes, 0 - k)],
     counter    |-> CounterNear(nonce, k),
     tagMask    |-> Encrypt(deriveCounter(nonce)),
     buf        |-> Repeat(0, (gcmBlockSize - (k % gcmBlockSize)) % gcmBlockSize),
     verifyOnly |-> FALSE]

InitLimit ==
    \E nonce \in Nonces, k \in 0..LimitSlack :
        \/ /\ enc = StreamerNear(nonce, k)
           /\ encMsg = [NoEncMsg EXCEPT !.st = "init", !.op = "Next", !.nonce = nonce,
                                        !.fed = U64Add(MaxMessageBytes, 0 - k)]
           /\ dec = NewStreamer
           /\ decMsg = NoDecMsg
           /\ decCall = NoCall
        \/ /\ dec = StreamerNear(nonce, k)
           /\ decMsg = [NoDecMsg EXCEPT !.st = "init", !.op = "Next",
                                        !.variant = "Initialize", !.nonce = nonce,
                                        !.fed = U64Add(MaxMessageBytes, 0 - k)]
           /\ enc = NewStreamer
           /\ encMsg = NoEncMsg
           /\ decCall = NoCall

\* the caller feeds up to LimitSlack bytes past the limit
BelowCap(fed, n) == ~U64Gt(U64Add(fed, n), U64Add(MaxMessageBytes, LimitSlack))

NextLimit ==
    \/ \E n \in FragLens :
          /\ ~encMsg.panic
          /\ BelowCap(encMsg.fed, n)
          /\ EncNext(Repeat(0, n))
    \/ /\ ~encMsg.panic
       /\ EncFinalize
    \/ \E n \in FragLens :
          /\ BelowCap(decMsg.fed, n)
          /\ DecNext(Repeat(0, n))
    \/ /\ decMsg.st = "init"
       /\ \E k \in {"zero", "empty"} : DecFinalize(TagOf(<<>>, k))

SpecLimit == InitLimit /\ [][NextLimit]_vars

(***************************************************************************)
(* SpecSteps: the decryptor's Next and Finalize run statement by           *)
(* statement, so that every point inside a call is a state.  The           *)
(* decryptor reads, message after message and in either mode, sealed       *)
(* messages of the lengths in StepLens, cut into fragments of any lengths  *)
(* and finished with the tag received or with another.                     *)
(***************************************************************************)
StepLens == {0, 1, 16, 17, MaxPlain}

\* what the one-shot GCM makes of n bytes of plaintext
Sealed(nonce, ad, n) ==
    LET o == Seal(nonce, PlainFrom(0, n), ad)
    IN  [nonce |-> nonce, ad |-> ad, ct |-> Take(o, n), tag |-> Drop(o, n)]

NextSteps ==
    \/ /\ Idle /\ decCall.pc = "idle"
       /\ \E nonce \in Nonces, ad \in ADs, n \in StepLens :
             DecInitialize(Sealed(nonce, ad, n))
    \/ /\ Idle /\ decCall.pc = "idle"
       /\ \E nonce \in Nonces, ad \in ADs, n \in StepLens :
             DecInitializeVerifyOnly(Sealed(nonce, ad, n))
    \/ \E n \in FragLens :
          /\ Len(decMsg.in) + n <= Len(decMsg.ct)
          /\ DecNextCall(SubSeq(decMsg.ct, Len(decMsg.in) + 1, Len(decMsg.in) + n))
    \/ DecNextStep
    \/ /\ Len(decMsg.in) = Len(decMsg.ct)
       /\ \E k \in {"same", "zero"} :
             DecFinalizeCall(TagOf(IF decMsg.st = "new" THEN ZeroStateTag ELSE decMsg.tag, k))
    \/ DecFinalizeStep

SpecSteps == Init /\ [][NextSteps]_vars

(***************************************************************************)
(* SpecInterleave: the calls on the encryptor and the calls on the         *)
(* decryptor of one constructor call, in any order.  The encryptor         *)
(* encrypts messages of up to MaxMixed bytes while the decryptor reads     *)
(* sealed messages of the lengths in MixedLens, in either mode.            *)
(***************************************************************************)
MaxMixed == 17

MixedFrags == {1, 16}

MixedLens == {1, MaxMixed}

NextInterleave ==
    \/ \E nonce \in Nonces : EncInitialize(nonce, ADOf(MaxAD))
    \/ \E n \in MixedFrags :
          /\ Len(encMsg.in) + n <= MaxMixed
          /\ EncNext(PlainFrom(Len(encMsg.in), n))
    \/ EncFinalize
    \/ /\ Idle
       /\ \E nonce \in Nonces, n \in MixedLens : DecInitialize(Sealed(nonce, ADOf(0), n))
    \/ /\ Idle
       /\ \E nonce \in Nonces, n \in MixedLens :
             DecInitializeVerifyOnly(Sealed(nonce, ADOf(0), n))
    \/ \E n \in MixedFrags :
          /\ Len(decMsg.in) + n <= Len(decMsg.ct)
          /\ DecNext(SubSeq(decMsg.ct, Len(decMsg.in) + 1, Len(decMsg.in) + n))
    \/ /\ decMsg.st = "init"
       /\ Len(decMsg.in) = Len(decMsg.ct)
       /\ DecFinalize(decMsg.tag)

SpecInterleave == Init /\ [][NextInterleave]_vars

(***************************************************************************)
(* Properties.                                                             *)
(***************************************************************************)
EncDone == encMsg.st = "final"

DecDone == decMsg.st = "final"

\* the decryptor was handed exactly what the encryptor produced
Untampered ==
    /\ decMsg.nonce = Produced.nonce
    /\ decMsg.ad = Produced.ad
    /\ decMsg.in = Produced.ct
    /\ decMsg.tag = Produced.tag

\* the tag Finalize computed, read from the state Finalize leaves
ComputedTag == [i \in 1..gcmTagSize |-> TagByte(dec.y, dec.tagMask[i], i)]

\* C1: whatever the fragments the plaintext was fed in, the bytes returned
\* by the Next calls and Finalize of a finished message are the one-shot
\* GCM output for its nonce, associated data and plaintext: the ciphertext
\* followed by the 16-byte tag.
C1_FragmentationInvariance ==
    EncDone =>
        /\ Len(encMsg.out) = Len(encMsg.in) + gcmTagSize
        /\ encMsg.out = Seal(encMsg.nonce, encMsg.in, encMsg.ad)

C1_Witness ==
    /\ EncDone
    /\ Len(encMsg.in) > 2 * gcmBlockSize
    /\ Len(encMsg.ad) > 0

\* C2: a decryptor begun with Initialize and handed the encryptor's nonce,
\* associated data, ciphertext and tag returns the plaintext and no error.
C2_RoundTrip ==
    (DecDone /\ decMsg.variant = "Initialize" /\ Untampered) =>
        /\ decMsg.err = "nil"
        /\ decMsg.ret = encMsg.in

\* C3: a decryptor handed the encryptor's nonce but associated data,
\* ciphertext or tag that differ from what the encryptor produced reports
\* the authentication error.
C3_TamperDetection ==
    (/\ DecDone
     /\ decMsg.variant # "none"
     /\ decMsg.nonce = Produced.nonce
     /\ <<decMsg.ad, decMsg.in, decMsg.tag>> # <<Produced.ad, Produced.ct, Produced.tag>>)
        => decMsg.err = "errOpen"

C3_Witness ==
    /\ DecDone
    /\ decMsg.nonce = Produced.nonce
    /\ decMsg.ad = Produced.ad
    /\ decMsg.tag = Produced.tag
    /\ Len(decMsg.in) = Len(Produced.ct)
    /\ Len(decMsg.in) > gcmBlockSize
    /\ decMsg.in # Produced.ct
    /\ decMsg.err = "errOpen"

\* C4: in a message begun with InitializeVerifyOnly every Next returns dst
\* as it was passed in (the accumulated output stays empty) and Finalize
\* returns no bytes.
C4_VerifyOnlyEmitsNothing ==
    decMsg.variant = "InitializeVerifyOnly" =>
        /\ decMsg.out = <<>>
        /\ decMsg.ret = <<>>

C4_Witness ==
    /\ DecDone
    /\ decMsg.variant = "InitializeVerifyOnly"
    /\ Len(decMsg.in) > gcmBlockSize
    /\ Len(decMsg.in) % gcmBlockSize # 0
    /\ decMsg.err = "nil"

\* the verdict of a decryptor built anew, begun with the Initialize*
\* variant v and fed the ciphertext ct in one fragment
VerdictOf(v, nonce, ad, ct, tag) ==
    LET s0 == IF v = "InitializeVerifyOnly"
              THEN InitializeVerifyOnly(NewStreamer, nonce, ad).sg
              ELSE Initialize(NewStreamer, nonce, ad).sg
        s1 == decNext(s0, <<>>, ct).sg
    IN  decFinalize(s1, <<>>, tag).err

OtherVariant(v) ==
    IF v = "Initialize" THEN "InitializeVerifyOnly" ELSE "Initialize"

\* C5: the verdict of Finalize, whatever the fragments and whichever
\* Initialize* variant began the message, is the verdict the other variant
\* gives on the same nonce, associated data, ciphertext and tag.
C5_VerifyOnlyEquivalence ==
    (DecDone /\ decMsg.variant # "none") =>
        decMsg.err = VerdictOf(OtherVariant(decMsg.variant), decMsg.nonce,
                               decMsg.ad, decMsg.in, decMsg.tag)

C5_Witness ==
    /\ DecDone
    /\ decMsg.variant = "InitializeVerifyOnly"
    /\ Len(decMsg.in) > 2 * gcmBlockSize
    /\ decMsg.err = "nil"

\* C6: when the tag handed to Finalize is not the tag it computed, Finalize
\* returns (it does not panic) with the authentication error and with no
\* bytes at all, so none of the plaintext of the final partial block.
C6_MismatchReturnsErrorOnly ==
    (DecDone /\ decMsg.op = "Finalize" /\ decMsg.tag # ComputedTag) =>
        /\ ~decMsg.panic
        /\ decMsg.err = "errOpen"
        /\ decMsg.retNil
        /\ decMsg.ret = <<>>

C6_Witness ==
    /\ DecDone
    /\ decMsg.tag # ComputedTag
    /\ ~dec.verifyOnly
    /\ Len(dec.buf) > 0
    /\ Len(decMsg.out) > 0

\* C7: Finalize on a decryptor on which no Initialize* was ever called
\* panics: it never returns.
C7_FinalizeBeforeInitializePanics ==
    (decMsg.variant = "none" /\ decMsg.op = "Finalize") => decMsg.panic

\* C8: the Initialize* variant that began the current message decides
\* whether plaintext is emitted: after Initialize, Next has returned the
\* plaintext of every complete block fed; after InitializeVerifyOnly,
\* nothing.
C8_ModeFixedByInitialize ==
    /\ decMsg.variant = "Initialize" =>
           Len(decMsg.out) = (Len(decMsg.in) \div gcmBlockSize) * gcmBlockSize
    /\ decMsg.variant = "InitializeVerifyOnly" => decMsg.out = <<>>

\* C9: Encryptor.Next panics exactly when the plaintext bytes fed since
\* Initialize, this fragment included, exceed MaxMessageBytes, and the
\* call that panics returns dst as it was passed in.
C9_EncryptorLengthLimit ==
    /\ [](encMsg.op = "Next" =>
            (encMsg.panic <=> U64Gt(encMsg.fed, MaxMessageBytes)))
    /\ [][(encMsg'.op = "Next" /\ encMsg'.panic) => encMsg'.out = encMsg.out]_vars

C9_Witness ==
    /\ encMsg.op = "Next"
    /\ encMsg.panic
    /\ encMsg.fed = U64Add(MaxMessageBytes, 1)

C9_WitnessAtLimit ==
    /\ encMsg.op = "Next"
    /\ ~encMsg.panic
    /\ encMsg.fed = MaxMessageBytes
    /\ Len(encMsg.out) > 0

\* C10: Decryptor.Next panics when the ciphertext bytes fed since
\* Initialize exceed MaxMessageBytes, and the decryptor's
\* ciphertext-length field never exceeds MaxMessageBytes.
C10_DecryptorLengthLimit ==
    /\ decMsg.op = "Next" =>
           (decMsg.panic <=> U64Gt(decMsg.fed, MaxMessageBytes))
    /\ (decMsg.st = "init" /\ ~decMsg.panic) => ~U64Gt(dec.z.high, MaxMessageBytes)

\* the fields of the streaming state that a Next call works on: the
\* pending buffer, the ciphertext-length field, the counter and the field
\* accumulator
StreamFields(sg) == <<sg.buf, sg.z.high, sg.counter, sg.y>>

\* C11: a Next call on the encryptor that panics (the length limit) leaves
\* the pending buffer, the ciphertext-length field, the counter and the
\* field accumulator as they were before the call.
C11_PanickingNextLeavesState ==
    [][(encMsg'.op = "Next" /\ encMsg'.panic) =>
          StreamFields(enc') = StreamFields(enc)]_vars

\* C12: Initialize and InitializeVerifyOnly called with a nonce that is not
\* nonceSize bytes long panic (no such call ever returns: every message
\* begun has a nonce of nonceSize bytes), and the call that panics leaves
\* every field of the streamer, the mode flag included, as it was.
C12_BadNonceInitializePanics ==
    /\ [](/\ encMsg.st # "new" => Len(encMsg.nonce) = nonceSize
          /\ decMsg.variant # "none" => Len(decMsg.nonce) = nonceSize)
    /\ [][/\ (encMsg'.op = "Initialize" /\ encMsg'.panic) => enc' = enc
          /\ (decMsg'.op \in {"Initialize", "InitializeVerifyOnly"} /\ decMsg'.panic)
                => dec' = dec]_vars

\* the encryptor refused a nonce in the middle of a message
C12_Witness ==
    /\ encMsg.op = "Initialize"
    /\ encMsg.panic
    /\ encMsg.st = "init"
    /\ Len(enc.buf) > 0
    /\ Len(encMsg.out) > 0

\* the decryptor refused a nonce after a message read in verify-only mode
C12_WitnessDecryptor ==
    /\ decMsg.op = "InitializeVerifyOnly"
    /\ decMsg.panic
    /\ decMsg.st = "final"
    /\ dec.verifyOnly

\* C13: when a Next call has returned, on the encryptor or on the
\* decryptor in either mode, the pending buffer holds fewer than
\* gcmBlockSize bytes: the bytes fed since Initialize that do not fill a
\* block.
C13_NextDrainsCompleteBlocks ==
    /\ (encMsg.op = "Next" /\ ~encMsg.panic) =>
           /\ Len(enc.buf) < gcmBlockSize
           /\ Len(enc.buf) = Len(encMsg.in) % gcmBlockSize
    /\ (decMsg.op = "Next" /\ ~decMsg.panic) =>
           /\ Len(dec.buf) < gcmBlockSize
           /\ Len(dec.buf) = Len(decMsg.in) % gcmBlockSize

\* a verify-only Next that was handed two blocks and a byte at once
C13_Witness ==
    /\ decMsg.op = "Next"
    /\ dec.verifyOnly
    /\ Len(decMsg.in) = 2 * gcmBlockSize + 1
    /\ Len(dec.buf) = 1
    /\ dec.z.high = U64(Len(decMsg.in))

C13_WitnessEncryptor ==
    /\ encMsg.op = "Next"
    /\ Len(encMsg.in) = 2 * gcmBlockSize
    /\ Len(enc.buf) = 0
    /\ enc.z.high = U64(Len(encMsg.in))

\* the 32-bit big-endian encoding of n
BE32(n) == <<(n \div 2 ^ 24) % 256, (n \div 2 ^ 16) % 256, (n \div 2 ^ 8) % 256, n % 256>>

\* the counter derived from the nonce (nonce || 1), advanced once by
\* Initialize and once more for each of blocks blocks
CounterAfter(nonce, blocks) == nonce \o BE32(1 + 1 + blocks)

\* the complete blocks among the bytes fed
BlocksOf(in) == Len(in) \div gcmBlockSize

\* C14 as stated: between Initialize and Finalize, on the encryptor and on
\* the decryptor, the counter is the value derived from the nonce, advanced
\* once by Initialize and once for each complete block Next has consumed.
C14_CounterCountsBlocks ==
    /\ encMsg.st = "init" =>
           enc.counter = CounterAfter(encMsg.nonce, BlocksOf(encMsg.in))
    /\ decMsg.st = "init" =>
           dec.counter = CounterAfter(decMsg.nonce, BlocksOf(decMsg.in))

\* C14 amended: the counter counts the blocks consumed on the encryptor,
\* and on the decryptor while its mode flag is not set; while the flag is
\* set Next consumes blocks and the counter stays at the value Initialize
\* left.
C14_CounterCountsBlocksUnlessVerifyOnly ==
    /\ encMsg.st = "init" =>
           enc.counter = CounterAfter(encMsg.nonce, BlocksOf(encMsg.in))
    /\ decMsg.st = "init" =>
           dec.counter = CounterAfter(decMsg.nonce,
                                      IF dec.verifyOnly THEN 0 ELSE BlocksOf(decMsg.in))

\* a verify-only decryptor that has consumed two blocks
C14_Witness ==
    /\ decMsg.st = "init"
    /\ decMsg.op = "Next"
    /\ dec.verifyOnly
    /\ BlocksOf(decMsg.in) = 2
    /\ Len(dec.buf) = 0

C14_WitnessDecrypting ==
    /\ decMsg.st = "init"
    /\ decMsg.op = "Next"
    /\ ~dec.verifyOnly
    /\ BlocksOf(decMsg.in) = 2
    /\ enc.counter # dec.counter

\* the calls run statement by statement leave what the calls run at once
\* leave: the streamer and the bytes returned
StepsAgreeWithCalls ==
    [][/\ (decCall.pc \in {"N1", "N2", "N3", "N4", "N5"} /\ decCall'.pc = "idle") =>
             LET r == decNext(decCall.sg0, decMsg.out, decCall.src)
             IN  dec' = r.sg /\ decMsg'.out = r.dst
       /\ (decCall.pc \in {"F1", "F2", "F3", "F4"} /\ decCall'.pc = "idle") =>
             LET r == decFinalize(decCall.sg0, decMsg.out, decCall.tag)
             IN  /\ dec' = r.sg
                 /\ decMsg'.ret = r.dst
                 /\ decMsg'.retNil = r.isNil
                 /\ decMsg'.err = r.err]_vars

\* the plaintext the decryptor has appended to the output in this message,
\* at this point: dst of the call in progress, else what the calls returned
Released ==
    IF decCall.pc # "idle" THEN decCall.dst
    ELSE IF decMsg.st = "final" /\ ~decMsg.retNil THEN decMsg.ret
    ELSE decMsg.out

\* the ciphertext handed to the decryptor in this message, the fragment of
\* the Next in progress included
Handed == decMsg.in \o decCall.src

\* block j of that ciphertext, as it is folded: the last one padded
HandedBlock(j) ==
    LET b == SubSeq(Handed, (j - 1) * gcmBlockSize + 1, Min(j * gcmBlockSize, Len(Handed)))
    IN  b \o Repeat(0, gcmBlockSize - Len(b))

ADBlocks == (Len(decMsg.ad) + gcmBlockSize - 1) \div gcmBlockSize

\* block j of the ciphertext is in the accumulator, after the associated data
Folded(j) ==
    /\ ADBlocks + j <= Len(dec.y)
    /\ dec.y[ADBlocks + j] = HandedBlock(j)

\* C15: at every point of the decryptor's Next and Finalize, every
\* ciphertext block of which plaintext has been appended to the output has
\* already been folded into the accumulator.
C15_FoldBeforeRelease ==
    \A j \in 1..((Len(Released) + gcmBlockSize - 1) \div gcmBlockSize) : Folded(j)

\* inside Next, two blocks folded and not yet decrypted
C15_Witness ==
    /\ decCall.pc = "N4"
    /\ ~dec.verifyOnly
    /\ decCall.bytes = 2 * gcmBlockSize
    /\ Len(Released) = 0
    /\ Folded(2)

\* inside Finalize, the last partial block decrypted and appended
C15_WitnessFinalize ==
    /\ decCall.pc = "F3"
    /\ ~dec.verifyOnly
    /\ Len(Released) = gcmBlockSize + 1
    /\ Folded(2)

\* an encryptor built anew, after Initialize(nonce, ad) and a Next that was
\* handed the plaintext in: the streamer and the bytes returned
FreshEncryptor(nonce, ad, in) ==
    encNext(Initialize(NewStreamer, nonce, ad).sg, <<>>, in)

\* C16: whatever calls were made on the encryptor before the Initialize
\* that began the current message (messages finished, messages abandoned
\* with bytes pending), Initialize leaves the streamer an encryptor built
\* anew would be in, and the calls that follow leave the streamer and
\* return the bytes that the encryptor built anew would when given the
\* same Initialize and the same plaintext.
C16_ReinitializeResets ==
    /\ (encMsg.op = "Initialize" /\ ~encMsg.panic) =>
           enc = Initialize(NewStreamer, encMsg.nonce, encMsg.ad).sg
    /\ encMsg.st = "init" =>
           LET f == FreshEncryptor(encMsg.nonce, encMsg.ad, encMsg.in)
           IN  enc = f.sg /\ encMsg.out = f.dst
    /\ encMsg.st = "final" =>
           LET f == FreshEncryptor(encMsg.nonce, encMsg.ad, encMsg.in)
           IN  encMsg.out = encFinalize(f.sg, f.dst).dst

\* Initialize has just been called on an encryptor that was abandoned with
\* bytes pending
C16_Witness ==
    /\ encMsg.op = "Initialize"
    /\ ~encMsg.panic
    /\ encMsg.reinit = "pending"
    /\ enc.buf = <<>>
    /\ enc.z.high = U64(0)

\* Initialize has just been called on an encryptor that had finished a
\* message
C16_WitnessAfterFinalize ==
    /\ encMsg.op = "Initialize"
    /\ ~encMsg.panic
    /\ encMsg.reinit = "clean"

\* gcmStreamer.TagSize()
TagSize == gcmTagSize

\* C17: between Initialize and Finalize the bytes the encryptor's Next
\* calls have appended are a multiple of 16 in number, and as many as the
\* bytes fed less the bytes in the pending buffer; Finalize appends as many
\* bytes as the buffer holds and TagSize more, so that the output of a
\* whole message is TagSize bytes longer than the plaintext.
C17_ByteConservation ==
    /\ [](encMsg.st = "init" =>
            /\ Len(encMsg.out) % gcmBlockSize = 0
            /\ Len(encMsg.out) = Len(encMsg.in) - Len(enc.buf))
    /\ [][(encMsg.st = "init" /\ encMsg'.st = "final") =>
            Len(encMsg'.out) = Len(encMsg.out) + Len(enc.buf) + TagSize]_vars
    /\ [](encMsg.st = "final" => Len(encMsg.out) = Len(encMsg.in) + TagSize)

\* a message of two blocks and a byte, finished
C17_Witness ==
    /\ encMsg.st = "final"
    /\ Len(encMsg.in) = 2 * gcmBlockSize + 1
    /\ Len(encMsg.out) = 3 * gcmBlockSize + 1

\* fifteen bytes pending after a block was returned
C17_WitnessPending ==
    /\ encMsg.st = "init"
    /\ encMsg.op = "Next"
    /\ Len(enc.buf) = gcmBlockSize - 1
    /\ Len(encMsg.out) = gcmBlockSize

\* C18: in any interleaving of the calls on the encryptor and the calls on
\* the decryptor, a call on the one leaves every field of the other's
\* streamer (pending buffer, counter, tag mask, accumulators, mode flag) as
\* it was.
C18_IndependentStreamers ==
    [][/\ (enc' # enc \/ encMsg' # encMsg) => dec' = dec
       /\ (dec' # dec \/ decMsg' # decMsg) => enc' = enc]_vars

\* both in the middle of a message, each with bytes pending, the decryptor
\* in verify-only mode
C18_Witness ==
    /\ encMsg.st = "init" /\ encMsg.op = "Next"
    /\ decMsg.st = "init" /\ decMsg.op = "Next"
    /\ Len(enc.buf) > 0
    /\ Len(dec.buf) > 0
    /\ Len(enc.buf) # Len(dec.buf)
    /\ enc.counter # dec.counter
    /\ enc.tagMask # dec.tagMask
    /\ dec.verifyOnly

\* C19: Finalize handed a tag that is not gcmTagSize bytes long (shorter,
\* longer or empty) returns, without a panic, the authentication error and
\* a nil slice.
C19_WrongLengthTagRejected ==
    (DecDone /\ decMsg.op = "Finalize" /\ Len(decMsg.tag) # gcmTagSize) =>
        /\ ~decMsg.panic
        /\ decMsg.err = "errOpen"
        /\ decMsg.retNil

\* the message as produced, decrypted, and finished with no tag
C19_Witness ==
    /\ DecDone /\ decMsg.op = "Finalize"
    /\ Len(decMsg.tag) = 0
    /\ decMsg.nonce = Produced.nonce
    /\ decMsg.ad = Produced.ad
    /\ decMsg.in = Produced.ct
    /\ Len(decMsg.out) > 0
    /\ decMsg.err = "errOpen"

\* the message as produced, finished with the tag produced and a byte more
C19_WitnessLong ==
    /\ DecDone /\ decMsg.op = "Finalize"
    /\ Len(decMsg.tag) = gcmTagSize + 1
    /\ Take(decMsg.tag, gcmTagSize) = ComputedTag
    /\ decMsg.err = "errOpen"

====
